---- MODULE Spec2Model ----
(***************************************************************************)
(* terrainbento boundary-condition handlers:                               *)
(*   SingleNodeBaselevelHandler  (single_node_baselevel_handler.py)        *)
(*   ClosedNodeBaselevelHandler  (closed_node_baselevel_handler.py)        *)
(* and the erosion models that use them:                                   *)
(*   BasicDdVs  (model_208_basicDdVs.py)                                   *)
(*   BasicDdSt  (model_108_basicDdSt.py)                                   *)
(* A landlab grid carries at-node fields; a handler is constructed on the  *)
(* grid and then driven by run_one_step(dt).  Numbers are exact rationals  *)
(* <<n, d>> (d > 0, lowest terms), so float rounding is left out.          *)
(***************************************************************************)
EXTENDS Integers, Sequences, FiniteSets, TLC

VARIABLES
    at_node,          \* grid.at_node: field name -> (node -> value)
    status_at_node,   \* grid.status_at_node: node -> status code
    bh,               \* the handler object (its attributes), or NoHandler
    args,             \* keyword arguments of the constructor call
    call,             \* the last operation of the run: [op, dt]
    err,              \* exception raised by that operation, "none" if it returned
    initial,          \* at_node as it was when the constructor was called
    model             \* the erosion model object (its attributes), or NoModel

vars == <<at_node, status_at_node, bh, args, call, err, initial, model>>

----------------------------------------------------------------------------
(* Bounds of the model *)

NumNodes == 3
MaxTime == 5
MaxDt == 2

Nodes == 0 .. (NumNodes - 1)

----------------------------------------------------------------------------
(* Exact rational arithmetic standing for Python / numpy floats *)

None == <<>>

IAbs(i) == IF i < 0 THEN -i ELSE i

RECURSIVE GCD(_, _)
GCD(a, b) == IF b = 0 THEN a ELSE GCD(b, a % b)

Q(n, d) ==
    LET s == IF d < 0 THEN -1 ELSE 1
        g == GCD(IAbs(n), IAbs(d))
    IN  <<(s * n) \div g, (s * d) \div g>>

Float(i) == <<i, 1>>

RAdd(a, b) == Q(a[1] * b[2] + b[1] * a[2], a[2] * b[2])
RSub(a, b) == Q(a[1] * b[2] - b[1] * a[2], a[2] * b[2])
RMul(a, b) == Q(a[1] * b[1], a[2] * b[2])
RDiv(a, b) == Q(a[1] * b[2], a[2] * b[1])
RNeg(a) == <<-a[1], a[2]>>
RLt(a, b) == a[1] * b[2] < b[1] * a[2]
RLe(a, b) == a[1] * b[2] <= b[1] * a[2]

np_abs(a) == <<IAbs(a[1]), a[2]>>

RECURSIVE RSum(_, _)
RSum(f, S) ==
    IF S = {} THEN Float(0)
    ELSE LET n == CHOOSE m \in S : TRUE
         IN  RAdd(f[n], RSum(f, S \ {n}))

np_mean(f, S) == RDiv(RSum(f, S), Float(Cardinality(S)))

----------------------------------------------------------------------------
(* The file system seen by os.path.exists and np.loadtxt.  A history file   *)
(* is its table of <<time, elevation change>> rows (header row skipped).    *)

NonePath == "None"

HistoryFiles == {"outlet_history.txt", "uplift_history.txt"}

MissingFiles == {"foo.txt"}

os_path_exists(path) == path \in HistoryFiles

np_loadtxt(path) ==
    IF path = "outlet_history.txt"
    THEN << <<Float(0), Float(0)>>, <<Float(1), Float(-1)>>, <<Float(3), Float(-4)>> >>
    ELSE << <<Float(0), Float(1)>>, <<Float(2), Float(3)>> >>

(* interp1d(time, values): the object keeps the sample points *)
interp1d(table, values) ==
    [i \in 1 .. Len(table) |-> <<table[i][1], values[i]>>]

(* interp1d.__call__ checks bounds first and raises ValueError outside them *)
InRange(obj, x) == RLe(obj[1][1], x) /\ RLe(x, obj[Len(obj)][1])

(* interp1d.__call__ inside the range: linear interpolation between the     *)
(* two neighbouring samples                                                 *)
Evaluate(obj, x) ==
    LET first == CHOOSE i \in 1 .. Len(obj) :
                     /\ RLe(x, obj[i][1])
                     /\ \A j \in 1 .. (i - 1) : RLt(obj[j][1], x)
        hi == IF first < 2 THEN 2 ELSE first
        lo == hi - 1
        slope == RDiv(RSub(obj[hi][2], obj[lo][2]), RSub(obj[hi][1], obj[lo][1]))
    IN  RAdd(RMul(slope, RSub(x, obj[lo][1])), obj[lo][2])

----------------------------------------------------------------------------
(* The grid *)

TOPO == "topographic__elevation"
BEDROCK == "bedrock__elevation"

z == at_node[TOPO]

(* Node status codes of landlab: 0 core, 1 fixed-value (open) boundary,     *)
(* 4 closed boundary.  A grid has core nodes and perimeter nodes.           *)
CORE_NODE == 0
FIXED_VALUE_BOUNDARY == 1
CLOSED_BOUNDARY == 4

StatusValues == {CORE_NODE, FIXED_VALUE_BOUNDARY, CLOSED_BOUNDARY}

Statuses ==
    {s \in [Nodes -> StatusValues] :
        /\ \E n \in Nodes : s[n] = CORE_NODE
        /\ \E n \in Nodes : s[n] # CORE_NODE}

(* add_zeros, add_ones, and a sloping surface *)
ZProfiles ==
    { [n \in Nodes |-> Float(0)], [n \in Nodes |-> Float(1)], [n \in Nodes |-> Float(n)] }

Grids ==
    { [f \in {TOPO} |-> zp] : zp \in ZProfiles }
    \cup
    { [f \in {TOPO, BEDROCK} |->
          IF f = TOPO THEN zp ELSE [n \in Nodes |-> RSub(zp[n], Float(n + 1))]]
      : zp \in ZProfiles }

----------------------------------------------------------------------------
(* Constructor arguments and step sizes *)

Rates == {None, Q(-1, 10), Float(2)}
Paths == {NonePath} \cup MissingFiles \cup HistoryFiles
EndElevations == {None, Float(-3), Float(3)}
Dts == {Float(i) : i \in 1 .. MaxDt}

SINGLE == "SingleNodeBaselevelHandler"
CLOSED == "ClosedNodeBaselevelHandler"

NoHandler == [cls |-> "None"]
NoModel == [cls |-> "None"]

SingleArgs ==
    [cls : {SINGLE}, outlet_node : Nodes, lowering_rate : Rates,
     lowering_file_path : Paths, model_end_elevation : EndElevations]

ClosedArgs ==
    [cls : {CLOSED}, modify_closed_nodes : BOOLEAN, lowering_rate : Rates,
     lowering_file_path : Paths, model_end_elevation : EndElevations]

----------------------------------------------------------------------------
(* Construction *)

(* Variant: the ratio of the signed differences, without np.abs *)
scaling_factor_Signed(model_start_elevation, model_end_elevation, elev_change) ==
    IF model_end_elevation = None
    THEN Float(1)
    ELSE RDiv(RSub(model_start_elevation, model_end_elevation),
              RSub(elev_change[1], elev_change[Len(elev_change)]))

(* scaling_factor of both constructors *)
scaling_factor(model_start_elevation, model_end_elevation, elev_change) ==
    IF model_end_elevation = None
    THEN Float(1)
    ELSE RDiv(np_abs(RSub(model_start_elevation, model_end_elevation)),
              np_abs(RSub(elev_change[1], elev_change[Len(elev_change)])))

(* outlet_elevation_obj of both constructors *)
outlet_elevation_obj(path, model_start_elevation, model_end_elevation) ==
    LET elev_change_df == np_loadtxt(path)
        elev_change == [i \in 1 .. Len(elev_change_df) |-> elev_change_df[i][2]]
        sf == scaling_factor(model_start_elevation, model_end_elevation, elev_change)
        outlet_elevation ==
            [i \in 1 .. Len(elev_change) |->
                RAdd(RMul(sf, elev_change[i]), model_start_elevation)]
    IN  interp1d(elev_change_df, outlet_elevation)

(* Variant: a rate given together with a file path is accepted *)
SingleInitRaises_BothAccepted(a) ==
    IF a.lowering_file_path = NonePath /\ a.lowering_rate = None
    THEN "ValueError"
    ELSE IF a.lowering_rate = None
         THEN IF os_path_exists(a.lowering_file_path) THEN "none" ELSE "ValueError"
         ELSE "none"

(* The exception SingleNodeBaselevelHandler.__init__ raises, "none" if it returns *)
SingleInitRaises(a) ==
    IF a.lowering_file_path = NonePath /\ a.lowering_rate = None
    THEN "ValueError"
    ELSE IF a.lowering_rate = None
         THEN IF os_path_exists(a.lowering_file_path) THEN "none" ELSE "ValueError"
         ELSE IF a.lowering_file_path = NonePath THEN "none" ELSE "ValueError"

(* Variant: history mode stores a zero rate instead of None *)
SingleInitObject_ZeroRate(a) ==
    [cls |-> SINGLE,
     model_time |-> Float(0),
     outlet_node |-> a.outlet_node,
     lowering_rate |-> IF a.lowering_rate = None THEN Float(0) ELSE a.lowering_rate,
     outlet_elevation_obj |->
         IF a.lowering_rate = None
         THEN outlet_elevation_obj(a.lowering_file_path, z[a.outlet_node],
                                   a.model_end_elevation)
         ELSE None]

SingleInitObject(a) ==
    [cls |-> SINGLE,
     model_time |-> Float(0),
     outlet_node |-> a.outlet_node,
     lowering_rate |-> IF a.lowering_rate = None THEN None ELSE a.lowering_rate,
     outlet_elevation_obj |->
         IF a.lowering_rate = None
         THEN outlet_elevation_obj(a.lowering_file_path, z[a.outlet_node],
                                   a.model_end_elevation)
         ELSE None]

SingleNodeBaselevelHandler__init__(a) ==
    /\ bh = NoHandler
    /\ call.op = "none"
    /\ args' = a
    /\ call' = [op |-> "__init__", dt |-> None]
    /\ initial' = at_node
    /\ err' = SingleInitRaises(a)
    /\ bh' = IF SingleInitRaises(a) = "none" THEN SingleInitObject(a) ELSE NoHandler
    /\ UNCHANGED <<at_node, status_at_node, model>>

(* Variant: only closed boundary nodes count as the closed side *)
nodes_to_lower_ClosedOnly(modify_closed_nodes) ==
    IF modify_closed_nodes
    THEN {n \in Nodes : status_at_node[n] = 4}
    ELSE {n \in Nodes : status_at_node[n] # 4}

(* nodes_to_lower and prefactor of ClosedNodeBaselevelHandler.__init__ *)
nodes_to_lower(modify_closed_nodes) ==
    IF modify_closed_nodes
    THEN {n \in Nodes : status_at_node[n] # 0}
    ELSE {n \in Nodes : status_at_node[n] = 0}

prefactor(modify_closed_nodes) ==
    IF modify_closed_nodes THEN Float(1) ELSE Float(-1)

(* Variant: no os.path.exists test, np.loadtxt fails on the missing file *)
ClosedInitRaises_NoExistsTest(a) ==
    IF a.lowering_file_path = NonePath /\ a.lowering_rate = None
    THEN "ValueError"
    ELSE IF a.lowering_rate = None
         THEN IF os_path_exists(a.lowering_file_path)
              THEN IF a.model_end_elevation = None
                   THEN "UnboundLocalError"
                   ELSE "none"
              ELSE "OSError"
         ELSE IF a.lowering_file_path = NonePath THEN "none" ELSE "ValueError"

(* The exception ClosedNodeBaselevelHandler.__init__ raises, "none" if it   *)
(* returns.  Without model_end_elevation the local model_start_elevation is *)
(* read before it is assigned.                                              *)
ClosedInitRaises(a) ==
    IF a.lowering_file_path = NonePath /\ a.lowering_rate = None
    THEN "ValueError"
    ELSE IF a.lowering_rate = None
         THEN IF os_path_exists(a.lowering_file_path)
              THEN IF a.model_end_elevation = None
                   THEN "UnboundLocalError"
                   ELSE "none"
              ELSE "ValueError"
         ELSE IF a.lowering_file_path = NonePath THEN "none" ELSE "ValueError"

ClosedInitObject(a) ==
    [cls |-> CLOSED,
     model_time |-> Float(0),
     modify_closed_nodes |-> a.modify_closed_nodes,
     nodes_to_lower |-> nodes_to_lower(a.modify_closed_nodes),
     prefactor |-> prefactor(a.modify_closed_nodes),
     lowering_rate |-> IF a.lowering_rate = None THEN None ELSE a.lowering_rate,
     outlet_elevation_obj |->
         IF a.lowering_rate = None
         THEN outlet_elevation_obj(a.lowering_file_path,
                                   np_mean(z, nodes_to_lower(a.modify_closed_nodes)),
                                   a.model_end_elevation)
         ELSE None]

ClosedNodeBaselevelHandler__init__(a) ==
    /\ bh = NoHandler
    /\ call.op = "none"
    /\ args' = a
    /\ call' = [op |-> "__init__", dt |-> None]
    /\ initial' = at_node
    /\ err' = ClosedInitRaises(a)
    /\ bh' = IF ClosedInitRaises(a) = "none" THEN ClosedInitObject(a) ELSE NoHandler
    /\ UNCHANGED <<at_node, status_at_node, model>>

----------------------------------------------------------------------------
(* run_one_step *)

(* field f with the nodes of S changed by delta[n] *)
Shifted(field, S, delta) ==
    [n \in Nodes |-> IF n \in S THEN RAdd(field[n], delta[n]) ELSE field[n]]

(* Variant: only `topographic__elevation` is changed *)
ApplyChange_TopoOnly(S, delta) ==
    [f \in DOMAIN at_node |->
        IF f = TOPO THEN Shifted(at_node[f], S, delta) ELSE at_node[f]]

(* Variant: which fields exist is decided once, at construction *)
ApplyChange_Cached(S, delta) ==
    [f \in DOMAIN at_node |->
        IF f \in {TOPO, BEDROCK} \cap DOMAIN initial
        THEN Shifted(at_node[f], S, delta)
        ELSE at_node[f]]

(* at_node after `topographic__elevation` and, if it exists,               *)
(* `bedrock__elevation` received delta on the nodes of S                    *)
ApplyChange(S, delta) ==
    [f \in DOMAIN at_node |->
        IF f \in {TOPO, BEDROCK} THEN Shifted(at_node[f], S, delta) ELSE at_node[f]]

(* Variant: the trajectory is evaluated at the time after the step *)
SingleEvalTime_AfterIncrement(dt) == RAdd(bh.model_time, dt)

(* time at which SingleNodeBaselevelHandler evaluates its trajectory *)
SingleEvalTime(dt) == bh.model_time

(* Variant: the whole field is indexed instead of the outlet node *)
SingleTargetNodes_All == Nodes

(* nodes SingleNodeBaselevelHandler writes: self.z[self.outlet_node] *)
SingleTargetNodes == {bh.outlet_node}

SingleRaises(dt) ==
    IF bh.outlet_elevation_obj = None
    THEN "none"
    ELSE IF InRange(bh.outlet_elevation_obj, SingleEvalTime(dt))
         THEN "none"
         ELSE "ValueError"

(* Variant: the constant-rate change is subtracted *)
SingleDelta_Subtracted(dt) ==
    IF bh.outlet_elevation_obj = None
    THEN RNeg(RMul(bh.lowering_rate, dt))
    ELSE LET topo_change ==
                 RSub(z[bh.outlet_node],
                      Evaluate(bh.outlet_elevation_obj, SingleEvalTime(dt)))
         IN  RNeg(topo_change)

(* Variant: the change is measured from the outlet's elevation at          *)
(* construction instead of its current elevation                            *)
SingleDelta_FromInitial(dt) ==
    IF bh.outlet_elevation_obj = None
    THEN RMul(bh.lowering_rate, dt)
    ELSE LET topo_change ==
                 RSub(initial[TOPO][bh.outlet_node],
                      Evaluate(bh.outlet_elevation_obj, SingleEvalTime(dt)))
         IN  RNeg(topo_change)

(* change added to the outlet node by SingleNodeBaselevelHandler *)
SingleDelta(dt) ==
    IF bh.outlet_elevation_obj = None
    THEN RMul(bh.lowering_rate, dt)
    ELSE LET topo_change ==
                 RSub(z[bh.outlet_node],
                      Evaluate(bh.outlet_elevation_obj, SingleEvalTime(dt)))
         IN  RNeg(topo_change)

SingleRunOneStep(dt) ==
    /\ bh.cls = SINGLE
    /\ RLe(RAdd(bh.model_time, dt), Float(MaxTime))
    /\ call' = [op |-> "run_one_step", dt |-> dt]
    /\ err' = SingleRaises(dt)
    /\ IF SingleRaises(dt) = "none"
       THEN /\ at_node' = ApplyChange(SingleTargetNodes,
                                      [n \in Nodes |-> SingleDelta(dt)])
            /\ bh' = [bh EXCEPT !.model_time = RAdd(bh.model_time, dt)]
       ELSE UNCHANGED <<at_node, bh>>
    /\ UNCHANGED <<status_at_node, args, initial, model>>

(* Variant: the trajectory is evaluated at the time before the step *)
ClosedEvalTime_BeforeIncrement(dt) == bh.model_time

(* time at which ClosedNodeBaselevelHandler evaluates its trajectory *)
ClosedEvalTime(dt) == RAdd(bh.model_time, dt)

(* The constant-rate branch indexes self.z with the undefined global name   *)
(* nodes_to_lower: NameError.                                               *)
ClosedRaises(dt) ==
    IF bh.outlet_elevation_obj = None
    THEN "NameError"
    ELSE IF InRange(bh.outlet_elevation_obj, ClosedEvalTime(dt))
         THEN "none"
         ELSE "ValueError"

(* Variant: the mask is taken from the grid's present node status *)
ClosedTargetNodes_Live == nodes_to_lower(bh.modify_closed_nodes)

(* nodes ClosedNodeBaselevelHandler writes: self.z[self.nodes_to_lower] *)
ClosedTargetNodes == bh.nodes_to_lower

(* change added to node n by the history branch of ClosedNodeBaselevelHandler *)
ClosedDelta(dt, n) ==
    LET topo_change ==
            RMul(bh.prefactor,
                 RSub(z[n], Evaluate(bh.outlet_elevation_obj, ClosedEvalTime(dt))))
    IN  RNeg(topo_change)

ClosedRunOneStep(dt) ==
    /\ bh.cls = CLOSED
    /\ RLe(RAdd(bh.model_time, dt), Float(MaxTime))
    /\ call' = [op |-> "run_one_step", dt |-> dt]
    /\ err' = ClosedRaises(dt)
    /\ bh' = [bh EXCEPT !.model_time = RAdd(bh.model_time, dt)]
    /\ IF ClosedRaises(dt) = "none"
       THEN at_node' = ApplyChange(ClosedTargetNodes,
                                   [n \in Nodes |-> ClosedDelta(dt, n)])
       ELSE UNCHANGED at_node
    /\ UNCHANGED <<status_at_node, args, initial, model>>

----------------------------------------------------------------------------
(* Specification *)

Init ==
    /\ at_node \in Grids
    /\ status_at_node \in Statuses
    /\ bh = NoHandler
    /\ args = [cls |-> "None"]
    /\ call = [op |-> "none", dt |-> None]
    /\ err = "none"
    /\ initial = at_node
    /\ model = NoModel

Next ==
    \/ \E a \in SingleArgs : SingleNodeBaselevelHandler__init__(a)
    \/ \E a \in ClosedArgs : ClosedNodeBaselevelHandler__init__(a)
    \/ \E dt \in Dts : SingleRunOneStep(dt)
    \/ \E dt \in Dts : ClosedRunOneStep(dt)

Spec == Init /\ [][Next]_vars

(* The closed-node handler on a grid whose node status is changed by the    *)
(* rest of the program after the handler was constructed                    *)
(* (grid.status_at_node[n] = s): a core node becomes a boundary node or a   *)
(* boundary node becomes a core node.  One such change per run: it happens  *)
(* while the grid still agrees with the handler's mask.                     *)
SetStatus(n, s) ==
    /\ bh.cls = CLOSED
    /\ bh.nodes_to_lower = nodes_to_lower(bh.modify_closed_nodes)
    /\ (status_at_node[n] = CORE_NODE) # (s = CORE_NODE)
    /\ status_at_node' = [status_at_node EXCEPT ![n] = s]
    /\ call' = [op |-> "set_status", dt |-> None]
    /\ err' = "none"
    /\ UNCHANGED <<at_node, bh, args, initial, model>>

NextStatus ==
    \/ \E a \in ClosedArgs : ClosedNodeBaselevelHandler__init__(a)
    \/ \E dt \in Dts : ClosedRunOneStep(dt)
    \/ \E n \in Nodes, s \in StatusValues : SetStatus(n, s)

SpecStatus == Init /\ [][NextStatus]_vars

----------------------------------------------------------------------------
(* Vocabulary of the properties *)

Constructed == bh # NoHandler
ConstructorCalled == args.cls # "None"
Stepped == call.op = "run_one_step"
HasBedrock == BEDROCK \in DOMAIN at_node

NeitherGiven == args.lowering_rate = None /\ args.lowering_file_path = NonePath
BothGiven == args.lowering_rate # None /\ args.lowering_file_path # NonePath

ConstantRateMode == Constructed /\ bh.outlet_elevation_obj = None
HistoryMode == Constructed /\ bh.outlet_elevation_obj # None

(* the raw table of the history file offset by the outlet's elevation at    *)
(* construction, interpolated at t                                          *)
RawTrajectory(t) ==
    RAdd(initial[TOPO][bh.outlet_node],
         Evaluate(np_loadtxt(args.lowering_file_path), t))

HistoryFinalTime ==
    LET table == np_loadtxt(args.lowering_file_path) IN table[Len(table)][1]

(* time at which the last run_one_step of a single-node handler evaluated   *)
(* its trajectory: model_time before that call                              *)
TimeBeforeLastStep == RSub(bh.model_time, call.dt)

----------------------------------------------------------------------------
(* C1: constructing either handler with neither or with both of            *)
(* lowering_rate and lowering_file_path raises ValueError and yields no     *)
(* handler; a handler exists only if exactly one of the two was supplied.   *)
C1_MutualExclusion ==
    ConstructorCalled =>
        /\ (NeitherGiven \/ BothGiven) => (err = "ValueError" /\ ~Constructed)
        /\ Constructed => (~NeitherGiven /\ ~BothGiven)

C1_Witness ==
    /\ ConstructorCalled
    /\ BothGiven
    /\ os_path_exists(args.lowering_file_path)
    /\ err = "ValueError"
    /\ ~Constructed

(* C2: constructing either handler with only a lowering_file_path that     *)
(* does not exist raises ValueError; no handler is produced.                *)
C2_MissingFile ==
    ( /\ ConstructorCalled
      /\ args.lowering_rate = None
      /\ args.lowering_file_path # NonePath
      /\ ~os_path_exists(args.lowering_file_path) )
    => (err = "ValueError" /\ ~Constructed)

C2_Witness ==
    /\ args.cls = CLOSED
    /\ args.lowering_rate = None
    /\ args.lowering_file_path \in MissingFiles
    /\ err = "ValueError"
    /\ ~Constructed

(* C3: a single-node handler with constant rate r has moved the outlet by  *)
(* r times the elapsed time (the sum of the step sizes), in topography and, *)
(* if the field exists, in bedrock.                                         *)
C3_ConstantRateTotal ==
    (bh.cls = SINGLE /\ ConstantRateMode) =>
        \A f \in DOMAIN at_node :
            at_node[f][bh.outlet_node] =
                RAdd(initial[f][bh.outlet_node], RMul(bh.lowering_rate, bh.model_time))

C3_Witness ==
    /\ bh.cls = SINGLE
    /\ ConstantRateMode
    /\ HasBedrock
    /\ bh.model_time = Float(3)
    /\ call.dt = Float(1)
    /\ z[bh.outlet_node] # initial[TOPO][bh.outlet_node]

(* C4: a single-node handler, in either mode, never changes topography or  *)
(* bedrock at a node other than outlet_node.                                *)
C4_OtherNodesUntouched ==
    bh.cls = SINGLE =>
        \A f \in DOMAIN at_node : \A n \in Nodes \ {bh.outlet_node} :
            at_node[f][n] = initial[f][n]

C4_Witness ==
    /\ bh.cls = SINGLE
    /\ HistoryMode
    /\ HasBedrock
    /\ Stepped
    /\ err = "none"
    /\ z[bh.outlet_node] # initial[TOPO][bh.outlet_node]

(* C5 as stated: in history mode without model_end_elevation, after a step *)
(* that leaves model_time = t the outlet sits at interpolant(t).            *)
C5_AsStated ==
    ( /\ bh.cls = SINGLE
      /\ HistoryMode
      /\ args.model_end_elevation = None
      /\ Stepped
      /\ err = "none"
      /\ RLe(bh.model_time, HistoryFinalTime) )
    => z[bh.outlet_node] = RawTrajectory(bh.model_time)

(* C5 amended: in history mode without model_end_elevation, after a        *)
(* run_one_step(dt) that returns with model_time = t the outlet sits at     *)
(* interpolant(t - dt), the raw trajectory at the time held before the call.*)
C5_Amended ==
    ( /\ bh.cls = SINGLE
      /\ HistoryMode
      /\ args.model_end_elevation = None
      /\ Stepped
      /\ err = "none" )
    => z[bh.outlet_node] = RawTrajectory(TimeBeforeLastStep)

C5_Witness ==
    /\ bh.cls = SINGLE
    /\ HistoryMode
    /\ args.model_end_elevation = None
    /\ Stepped
    /\ err = "none"
    /\ TimeBeforeLastStep = Float(2)
    /\ z[bh.outlet_node] # initial[TOPO][bh.outlet_node]

(* C6 as stated: with model_end_elevation = E, once the step that          *)
(* evaluates the trajectory at the history's final time has run, the        *)
(* outlet's elevation is E.                                                 *)
C6_RescalingLaw ==
    ( /\ bh.cls = SINGLE
      /\ HistoryMode
      /\ args.model_end_elevation # None
      /\ Stepped
      /\ err = "none"
      /\ TimeBeforeLastStep = HistoryFinalTime )
    => z[bh.outlet_node] = args.model_end_elevation

(* C7 as stated: a closed-node handler with constant rate has moved every  *)
(* node of its target mask by prefactor * rate * elapsed time, in           *)
(* topography and bedrock, and no other node.                               *)
C7_ClosedConstantRate ==
    (bh.cls = CLOSED /\ ConstantRateMode) =>
        \A f \in DOMAIN at_node : \A n \in Nodes :
            at_node[f][n] =
                IF n \in bh.nodes_to_lower
                THEN RAdd(initial[f][n],
                          RMul(bh.prefactor, RMul(bh.lowering_rate, bh.model_time)))
                ELSE initial[f][n]

(* C8 as stated: run_one_step on a constructed handler never raises.       *)
C8_StepNeverRaises ==
    Stepped => err = "none"

(* C9 as stated: with modify_closed_nodes = True only nodes classified as  *)
(* closed change; open boundary nodes and core nodes keep their elevation.  *)
C9_OnlyClosedNodesChange ==
    (bh.cls = CLOSED /\ bh.modify_closed_nodes) =>
        \A n \in Nodes :
            status_at_node[n] # CLOSED_BOUNDARY => z[n] = initial[TOPO][n]

(* C10: when bedrock__elevation exists, every step of either handler, in   *)
(* constant-rate and in history mode, changes bedrock at each node by what  *)
(* it changes topography, so elevation - bedrock at every node stays what   *)
(* it was at construction, and bedrock stays at or below the surface.       *)
C10_BedrockTracksTopography ==
    (Constructed /\ HasBedrock) =>
        \A n \in Nodes :
            /\ RSub(z[n], at_node[BEDROCK][n]) =
                   RSub(initial[TOPO][n], initial[BEDROCK][n])
            /\ RLe(at_node[BEDROCK][n], z[n])

(* a closed-node handler in history mode has moved a node of its mask, and  *)
(* the node's bedrock with it                                               *)
C10_Witness ==
    /\ bh.cls = CLOSED
    /\ HistoryMode
    /\ HasBedrock
    /\ Stepped
    /\ err = "none"
    /\ \E n \in bh.nodes_to_lower :
           /\ z[n] # initial[TOPO][n]
           /\ at_node[BEDROCK][n] # initial[BEDROCK][n]

(* C11 as stated: model_time is 0 after construction and every             *)
(* run_one_step(dt) call advances it by exactly dt.                         *)
C11_TimeAdvancesByDt ==
    [][ /\ (~Constructed /\ Constructed') => bh'.model_time = Float(0)
        /\ (Constructed /\ call'.op = "run_one_step")
               => bh'.model_time = RAdd(bh.model_time, call'.dt) ]_vars

(* C12 as stated: a closed-node handler given an existing history file and *)
(* no model_end_elevation is constructed (with scaling factor 1).           *)
C12_ClosedHistoryUnscaled ==
    ( /\ args.cls = CLOSED
      /\ args.lowering_rate = None
      /\ os_path_exists(args.lowering_file_path)
      /\ args.model_end_elevation = None )
    => (Constructed /\ err = "none")

(* C13 as stated: a closed-node handler with model_end_elevation = E has,  *)
(* once stepped to the history's final time, average elevation E over its   *)
(* target mask.                                                             *)
C13_ClosedRescalingLaw ==
    ( /\ bh.cls = CLOSED
      /\ HistoryMode
      /\ Stepped
      /\ err = "none"
      /\ bh.model_time = HistoryFinalTime )
    => np_mean(z, bh.nodes_to_lower) = args.model_end_elevation

(* the elevation the constructor took as model_start_elevation *)
StartElevation ==
    IF bh.cls = SINGLE
    THEN initial[TOPO][bh.outlet_node]
    ELSE np_mean(initial[TOPO], bh.nodes_to_lower)

(* C14: a constructed handler has exactly one of lowering_rate and         *)
(* outlet_elevation_obj set, and however many steps were run the rate is    *)
(* the one passed in and the trajectory is the one built at construction.   *)
C14_ModeFixed ==
    Constructed =>
        /\ (bh.lowering_rate = None) # (bh.outlet_elevation_obj = None)
        /\ bh.lowering_rate = args.lowering_rate
        /\ bh.outlet_elevation_obj =
               IF args.lowering_rate = None
               THEN outlet_elevation_obj(args.lowering_file_path, StartElevation,
                                         args.model_end_elevation)
               ELSE None

C14_Witness ==
    /\ bh.cls = SINGLE
    /\ bh.lowering_rate = None
    /\ bh.outlet_elevation_obj # None
    /\ Stepped
    /\ err = "none"
    /\ bh.model_time = Float(3)
    /\ z[bh.outlet_node] # initial[TOPO][bh.outlet_node]

(* C15: the single-node handler increments model_time last: in history     *)
(* mode a returning run_one_step(dt) leaves the outlet at the trajectory    *)
(* value of the time held before the call, so the first call places it at   *)
(* f(0) and the outlet is one step behind model_time.                       *)
C15_SingleIncrementsAtEnd ==
    (bh.cls = SINGLE /\ HistoryMode /\ Stepped /\ err = "none") =>
        /\ z[bh.outlet_node] = Evaluate(bh.outlet_elevation_obj, TimeBeforeLastStep)
        /\ bh.model_time = call.dt =>
               z[bh.outlet_node] = Evaluate(bh.outlet_elevation_obj, Float(0))

C15_Witness ==
    /\ bh.cls = SINGLE
    /\ HistoryMode
    /\ args.model_end_elevation # None
    /\ Stepped
    /\ err = "none"
    /\ bh.model_time = Float(2)
    /\ call.dt = Float(1)
    /\ z[bh.outlet_node] # Evaluate(bh.outlet_elevation_obj, bh.model_time)

(* C16: the closed-node handler increments model_time first: in history    *)
(* mode with modify_closed_nodes = True a returning run_one_step leaves     *)
(* every node of the target mask at f(model_time), the trajectory at the    *)
(* already incremented time.                                                *)
C16_ClosedIncrementsFirst ==
    ( /\ bh.cls = CLOSED
      /\ HistoryMode
      /\ bh.modify_closed_nodes
      /\ Stepped
      /\ err = "none" )
    => \A n \in bh.nodes_to_lower :
           z[n] = Evaluate(bh.outlet_elevation_obj, bh.model_time)

C16_Witness ==
    /\ bh.cls = CLOSED
    /\ HistoryMode
    /\ bh.modify_closed_nodes
    /\ Stepped
    /\ err = "none"
    /\ bh.model_time = Float(2)
    /\ call.dt = Float(1)
    /\ \E n \in bh.nodes_to_lower :
           /\ z[n] # initial[TOPO][n]
           /\ z[n] # Evaluate(bh.outlet_elevation_obj, Float(1))

(* C17 as stated: in history mode with modify_closed_nodes = False a       *)
(* non-closed node that started at the start elevation s sits, at elapsed   *)
(* time t, at s minus the scaled cumulative change f(t) - s, however many   *)
(* steps led to t.                                                          *)
C17_OppositeDirection ==
    ( /\ bh.cls = CLOSED
      /\ HistoryMode
      /\ ~bh.modify_closed_nodes
      /\ Stepped
      /\ err = "none" )
    => \A n \in bh.nodes_to_lower :
           initial[TOPO][n] = StartElevation =>
               z[n] = RSub(StartElevation,
                           RSub(Evaluate(bh.outlet_elevation_obj, bh.model_time),
                                StartElevation))

(* C19: modify_closed_nodes = True selects the nodes with status # 0 and   *)
(* prefactor +1, False selects the nodes with status = 0 and prefactor -1;  *)
(* the two masks are complementary.                                         *)
C19_MaskAndSign ==
    bh.cls = CLOSED =>
        /\ bh.modify_closed_nodes =>
               /\ bh.nodes_to_lower = {n \in Nodes : status_at_node[n] # CORE_NODE}
               /\ bh.prefactor = Float(1)
        /\ ~bh.modify_closed_nodes =>
               /\ bh.nodes_to_lower = {n \in Nodes : status_at_node[n] = CORE_NODE}
               /\ bh.prefactor = Float(-1)
        /\ nodes_to_lower(TRUE) \cup nodes_to_lower(FALSE) = Nodes
        /\ nodes_to_lower(TRUE) \cap nodes_to_lower(FALSE) = {}
        /\ bh.nodes_to_lower = nodes_to_lower(bh.modify_closed_nodes)

C19_Witness ==
    /\ bh.cls = CLOSED
    /\ ~bh.modify_closed_nodes
    /\ bh.prefactor = Float(-1)
    /\ \E n \in Nodes : status_at_node[n] = FIXED_VALUE_BOUNDARY
    /\ \E n \in Nodes : status_at_node[n] = CLOSED_BOUNDARY
    /\ bh.nodes_to_lower # {}

(* C20 as stated: a run_one_step call that raises leaves model_time and    *)
(* both elevation fields as they were before the call.                      *)
C20_FailedStepLeavesState ==
    [][ (Constructed /\ call'.op = "run_one_step" /\ err' # "none")
            => (bh' = bh /\ at_node' = at_node) ]_vars

(* C18: the target mask is the node status as it was at construction; it   *)
(* never changes afterwards, and every returning run_one_step moves the     *)
(* nodes of that mask onto (prefactor +1) or away from (prefactor -1) the   *)
(* trajectory and leaves every other node alone, whatever the node status   *)
(* has become since.                                                        *)
C18_MaskIsSnapshot ==
    [][ /\ (~Constructed /\ Constructed') =>
               bh'.nodes_to_lower =
                   IF bh'.modify_closed_nodes
                   THEN {n \in Nodes : status_at_node[n] # CORE_NODE}
                   ELSE {n \in Nodes : status_at_node[n] = CORE_NODE}
        /\ Constructed => bh'.nodes_to_lower = bh.nodes_to_lower
        /\ (Constructed /\ call'.op = "run_one_step" /\ err' = "none") =>
               \A n \in Nodes :
                   z'[n] =
                       IF n \in bh.nodes_to_lower
                       THEN RSub(z[n],
                                 RMul(bh.prefactor,
                                      RSub(z[n], Evaluate(bh.outlet_elevation_obj,
                                                          bh'.model_time))))
                       ELSE z[n]
        /\ (Constructed /\ call'.op # "run_one_step") => z' = z ]_vars

C18_Witness ==
    /\ bh.cls = CLOSED
    /\ HistoryMode
    /\ Stepped
    /\ err = "none"
    /\ bh.model_time = call.dt
    /\ \E n \in bh.nodes_to_lower \ nodes_to_lower(bh.modify_closed_nodes) :
           z[n] # initial[TOPO][n]
    /\ \A n \in Nodes \ bh.nodes_to_lower : z[n] = initial[TOPO][n]


----------------------------------------------------------------------------
(* net change, first sample to last, of the trajectory the handler holds    *)
ScaledNetChange ==
    LET obj == bh.outlet_elevation_obj
    IN  RSub(obj[Len(obj)][2], obj[1][2])

(* net change, first sample to last, of the history file's table            *)
RawNetChange ==
    LET table == np_loadtxt(args.lowering_file_path)
    IN  RSub(table[Len(table)][2], table[1][2])

(* C22: with model_end_elevation = E given, the trajectory built by the    *)
(* constructor has a net change of magnitude |start elevation - E|, and the *)
(* net change never has the sign opposite to the raw history's: it has the  *)
(* raw history's sign whenever E differs from the start elevation, whether  *)
(* E lies below or above it.                                                *)
C22_MagnitudeRatio ==
    ( /\ HistoryMode
      /\ args.model_end_elevation # None )
    => /\ np_abs(ScaledNetChange)
            = np_abs(RSub(StartElevation, args.model_end_elevation))
       /\ RLe(Float(0), RMul(ScaledNetChange, RawNetChange))
       /\ (StartElevation # args.model_end_elevation
             => RLt(Float(0), RMul(ScaledNetChange, RawNetChange)))

(* a falling history rescaled towards an end elevation above the start:     *)
(* the trajectory still falls                                               *)
C22_Witness ==
    /\ HistoryMode
    /\ args.model_end_elevation # None
    /\ RLt(StartElevation, args.model_end_elevation)
    /\ RLt(RawNetChange, Float(0))
    /\ RLt(ScaledNetChange, Float(0))


----------------------------------------------------------------------------
(* The single-node handler in a run where other components of the model     *)
(* (erosion, diffusion) write the outlet's topographic elevation between    *)
(* the handler's steps: self.z is the grid's array, shared with them.  One   *)
(* write follows a call of the handler that returned.                       *)

OutsideChanges == {Float(-1), Float(1)}

OtherComponentWrite(dz) ==
    /\ bh.cls = SINGLE
    /\ call.op \in {"__init__", "run_one_step"}
    /\ err = "none"
    /\ RLt(bh.model_time, Float(MaxTime))
    /\ at_node' = [at_node EXCEPT
                      ![TOPO][bh.outlet_node] = RAdd(@, dz)]
    /\ call' = [op |-> "write", dt |-> None]
    /\ err' = "none"
    /\ UNCHANGED <<status_at_node, bh, args, initial, model>>

InitOutlet ==
    /\ Init
    /\ status_at_node =
           [n \in Nodes |-> IF n = 0 THEN FIXED_VALUE_BOUNDARY ELSE CORE_NODE]

NextOutlet ==
    \/ \E a \in SingleArgs : SingleNodeBaselevelHandler__init__(a)
    \/ \E dt \in Dts : SingleRunOneStep(dt)
    \/ \E dz \in OutsideChanges : OtherComponentWrite(dz)

SpecOutlet == InitOutlet /\ [][NextOutlet]_vars

(* C21: a history-mode step of the single-node handler that returns leaves *)
(* the outlet at the value, at the handler's model_time, of the trajectory  *)
(* built from the constructor's arguments and the outlet's elevation at     *)
(* construction, whatever the outlet's elevation was just before the call;  *)
(* bedrock at the outlet is shifted by minus (elevation before the call     *)
(* minus that target).                                                      *)
C21_OutletIndependentOfCurrent ==
    [][ ( /\ bh.cls = SINGLE
          /\ HistoryMode
          /\ call'.op = "run_one_step"
          /\ err' = "none" )
        => LET o == bh.outlet_node
               target ==
                   Evaluate(outlet_elevation_obj(args.lowering_file_path,
                                                 initial[TOPO][o],
                                                 args.model_end_elevation),
                            bh.model_time)
           IN  /\ z'[o] = target
               /\ HasBedrock =>
                      at_node'[BEDROCK][o] =
                          RSub(at_node[BEDROCK][o], RSub(z[o], target)) ]_vars

(* after a step the outlet is on the trajectory although another component  *)
(* had moved it: the bedrock's offset from the surface is no longer the     *)
(* initial one                                                              *)
C21_Witness ==
    /\ bh.cls = SINGLE
    /\ HistoryMode
    /\ HasBedrock
    /\ Stepped
    /\ err = "none"
    /\ z[bh.outlet_node] =
           Evaluate(bh.outlet_elevation_obj, TimeBeforeLastStep)
    /\ RSub(z[bh.outlet_node], at_node[BEDROCK][bh.outlet_node])
           # RSub(initial[TOPO][bh.outlet_node], initial[BEDROCK][bh.outlet_node])


----------------------------------------------------------------------------
(* Either handler on a grid that has no bedrock__elevation when the         *)
(* handler is constructed; another component adds the field during the run, *)
(* after a step of the handler, with the values surface minus (n + 1).      *)

AddBedrock ==
    /\ Constructed
    /\ call.op = "run_one_step"
    /\ ~HasBedrock
    /\ at_node' = [f \in {TOPO, BEDROCK} |->
                      IF f = TOPO
                      THEN z
                      ELSE [n \in Nodes |-> RSub(z[n], Float(n + 1))]]
    /\ call' = [op |-> "add_field", dt |-> None]
    /\ err' = "none"
    /\ UNCHANGED <<status_at_node, bh, args, initial, model>>

InitBedrock ==
    /\ Init
    /\ ~HasBedrock

NextBedrock ==
    \/ \E a \in SingleArgs : SingleNodeBaselevelHandler__init__(a)
    \/ \E a \in ClosedArgs : ClosedNodeBaselevelHandler__init__(a)
    \/ \E dt \in Dts : SingleRunOneStep(dt)
    \/ \E dt \in Dts : ClosedRunOneStep(dt)
    \/ AddBedrock

SpecBedrock == InitBedrock /\ [][NextBedrock]_vars

(* C23: a step of either handler creates no field; taken while             *)
(* bedrock__elevation is absent it touches topography only, taken once the  *)
(* field exists it changes bedrock at every node by what it changes         *)
(* topography; so a bedrock field added during the run has changed, in      *)
(* total, by the topography's change since it was added.                    *)
C23_BedrockLookedUpEachStep ==
    /\ [][ (Constructed /\ call'.op = "run_one_step")
            => /\ DOMAIN at_node' = DOMAIN at_node
               /\ HasBedrock =>
                      \A n \in Nodes :
                          RSub(at_node'[BEDROCK][n], at_node[BEDROCK][n])
                              = RSub(z'[n], z[n]) ]_vars
    /\ []( (HasBedrock /\ BEDROCK \notin DOMAIN initial)
              => \A n \in Nodes :
                     at_node[BEDROCK][n] = RSub(z[n], Float(n + 1)) )

(* steps were taken before and after the field was added, and the last one  *)
(* moved the outlet and its bedrock                                         *)
C23_Witness ==
    /\ bh.cls = SINGLE
    /\ ConstantRateMode
    /\ HasBedrock
    /\ BEDROCK \notin DOMAIN initial
    /\ Stepped
    /\ err = "none"
    /\ RLt(call.dt, bh.model_time)
    /\ z[bh.outlet_node] # initial[TOPO][bh.outlet_node]
    /\ at_node[BEDROCK][bh.outlet_node]
           = RSub(z[bh.outlet_node], Float(bh.outlet_node + 1))


----------------------------------------------------------------------------
(* Erosion models BasicDdVs (model_208_basicDdVs.py) and BasicDdSt          *)
(* (model_108_basicDdSt.py).  The model object owns the grid, its boundary  *)
(* handlers and the landlab components; run_one_step(dt) is a sequence of   *)
(* component calls, and model.pc is the statement the call executes next.   *)
(* The landlab components (flow accumulator, eroder, diffuser) are outside  *)
(* the repository: each is a choice among the results it can write.         *)
(* BasicDdSt's rain generator and discharge field are left out.             *)

BASIC_DDST == "BasicDdSt"
BASIC_DDVS == "BasicDdVs"
PRECIP_CHANGER == "PrecipChanger"

AREA == "drainage_area"
SLOPE == "topographic__steepest_slope"
EFF_AREA == "effective_drainage_area"
THRESHOLD == "water_erosion_rule__threshold"
INITIAL_TOPO == "initial_topographic__elevation"

CumEroField(cls) ==
    IF cls = BASIC_DDST
    THEN "cumulative_elevation_change"
    ELSE "cumulative_erosion__depth"

(* flood_status codes of the depression finder *)
UNFLOODED == 0
FLOODED == 3

core_nodes == {n \in Nodes : status_at_node[n] = CORE_NODE}

RECURSIVE RPow(_, _)
RPow(x, k) == IF k = 0 THEN Float(1) ELSE RMul(x, RPow(x, k - 1))

(* a * np.exp(x) is kept as the pair (a, x); 0.0 is the pair (0, 0) *)
Zero == [coef |-> Float(0), exp |-> Float(0)]
TimesExp(a, x) == IF a = Float(0) THEN Zero ELSE [coef |-> a, exp |-> x]

ThreshChanges == {Q(1, 2), Float(-1)}

DdVsParams ==
    { [n_sp |-> n, m_sp |-> m,
       water_erodability |-> Q(1, 100),
       length_factor |-> Float(3),
       threshold |-> Float(1),
       thresh_depth_derivative |-> k,
       recharge_rate |-> Q(1, 2),
       soil__initial_thickness |-> Q(1, 10),
       hydraulic_conductivity |-> Float(5),
       dx |-> Float(1)]
      : n \in {Float(1), Float(2)}, m \in {Float(0)}, k \in ThreshChanges }

DdStParams ==
    { [n_sp |-> Float(1), m_sp |-> m,
       water_erodability_stochastic |-> Q(1, 100),
       length_factor |-> Float(3),
       threshold |-> Float(1),
       thresh_change_per_depth |-> k]
      : m \in {Float(1)}, k \in ThreshChanges }

HandlerSets == SUBSET {PRECIP_CHANGER, SINGLE}

(* the baselevel handler the model is configured with *)
OutletArgs ==
    [cls |-> SINGLE, outlet_node |-> 0, lowering_rate |-> Q(-1, 10),
     lowering_file_path |-> NonePath, model_end_elevation |-> None]

(* PrecipChanger.get_erodability_adjustment_factor() *)
get_erodability_adjustment_factor == Float(2)

(* what flow_accumulator.run_one_step() leaves on the grid and in the       *)
(* depression finder                                                        *)
FloodedSets == {{}, {1}, Nodes \ {0}}

RoutingResults(depression_finder) ==
    { [drainage_area |-> [n \in Nodes |-> Float(n + 1)],
       slope |-> [n \in Nodes |-> sl],
       flood_status |->
           IF depression_finder
           THEN [n \in Nodes |-> IF n \in F THEN FLOODED ELSE UNFLOODED]
           ELSE None]
      : sl \in {Float(0), Float(1)}, F \in FloodedSets }

ErosionDepths == {Float(0), Float(1)}
DiffusionChanges == {Float(0), Float(1)}

(* fields of the grid once the model is constructed *)
FieldNames(cls) ==
    {TOPO, INITIAL_TOPO, CumEroField(cls), AREA, SLOPE, THRESHOLD}
    \cup (IF cls = BASIC_DDVS THEN {EFF_AREA} ELSE {})

NewFields(cls, threshold_value, area, slope) ==
    [f \in FieldNames(cls) |->
        IF f \in {TOPO, INITIAL_TOPO} THEN z
        ELSE IF f = THRESHOLD THEN [n \in Nodes |-> threshold_value]
        ELSE IF f = EFF_AREA THEN [n \in Nodes |-> Zero]
        ELSE IF f = AREA THEN area
        ELSE IF f = SLOPE THEN slope
        ELSE [n \in Nodes |-> Float(0)]]

BasicDdVsObject(p, handlers, depression_finder) ==
    LET K == RMul(p.water_erodability,
                  RPow(p.length_factor,
                       RSub(Float(1), RMul(Float(2), p.m_sp))[1]))
    IN  [cls |-> BASIC_DDVS,
         m |-> p.m_sp,
         n |-> p.n_sp,
         K |-> K,
         threshold_value |-> RMul(p.length_factor, p.threshold),
         sat_param |->
             RDiv(RMul(RMul(RMul(p.length_factor, p.hydraulic_conductivity),
                            RMul(p.length_factor, p.soil__initial_thickness)),
                       p.dx),
                  RMul(p.length_factor, p.recharge_rate)),
         thresh_change_per_depth |-> p.thresh_depth_derivative,
         eroder_K |-> K,
         boundary_handler |-> handlers,
         depression_finder |-> depression_finder,
         flood_status |-> None,
         flooded |-> {},
         model_time |-> Float(0),
         pc |-> "idle",
         done |-> << >>]

BasicDdVs__init__(p, handlers, depression_finder) ==
    /\ model = NoModel
    /\ bh = NoHandler
    /\ call.op = "none"
    /\ call' = [op |-> "__init__", dt |-> None]
    /\ initial' = at_node
    /\ IF p.n_sp # Float(1)
       THEN /\ err' = "ValueError"
            /\ UNCHANGED <<at_node, bh, args, model>>
       ELSE /\ err' = "none"
            /\ model' = BasicDdVsObject(p, handlers, depression_finder)
            /\ at_node' = NewFields(BASIC_DDVS, RMul(p.length_factor, p.threshold),
                                    [n \in Nodes |-> Float(0)],
                                    [n \in Nodes |-> Float(0)])
            /\ bh' = IF SINGLE \in handlers THEN SingleInitObject(OutletArgs)
                                             ELSE NoHandler
            /\ args' = IF SINGLE \in handlers THEN OutletArgs ELSE args
    /\ UNCHANGED status_at_node

BasicDdStObject(p, r, depression_finder) ==
    LET K == RMul(p.water_erodability_stochastic,
                  RPow(p.length_factor,
                       RSub(RMul(Float(3), p.m_sp), Float(1))[1]))
    IN  [cls |-> BASIC_DDST,
         m |-> p.m_sp,
         n |-> p.n_sp,
         K |-> K,
         threshold_value |-> RMul(p.length_factor, p.threshold),
         sat_param |-> None,
         thresh_change_per_depth |-> p.thresh_change_per_depth,
         eroder_K |-> K,
         boundary_handler |-> {},
         depression_finder |-> depression_finder,
         flood_status |-> r.flood_status,
         flooded |-> {},
         model_time |-> Float(0),
         pc |-> "idle",
         done |-> << >>]

(* BasicDdSt.__init__ runs the flow accumulator once (result r) *)
BasicDdSt__init__(p, r, depression_finder) ==
    /\ model = NoModel
    /\ bh = NoHandler
    /\ call.op = "none"
    /\ call' = [op |-> "__init__", dt |-> None]
    /\ initial' = at_node
    /\ err' = "none"
    /\ model' = BasicDdStObject(p, r, depression_finder)
    /\ at_node' = NewFields(BASIC_DDST, RMul(p.length_factor, p.threshold),
                            r.drainage_area, r.slope)
    /\ UNCHANGED <<status_at_node, bh, args>>

(* the statements of run_one_step, in the order of the code; BasicDdSt      *)
(* updates its threshold in _pre_water_erosion_steps, the hook that         *)
(* handle_water_erosion calls before eroding                                *)
Phases(cls) ==
    IF cls = BASIC_DDVS
    THEN << "flow_accumulator", "effective_area", "flooded", "threshold",
            "precip_changer", "eroder", "diffuser", "finalize" >>
    ELSE << "flow_accumulator", "flooded", "threshold", "eroder",
            "diffuser", "finalize" >>

NextPhase(cls, phase) ==
    LET P == Phases(cls)
        i == CHOOSE j \in 1 .. Len(P) : P[j] = phase
    IN  IF i = Len(P) THEN "idle" ELSE P[i + 1]

Advance(phase) ==
    [model EXCEPT !.pc = NextPhase(model.cls, phase),
                  !.done = Append(@, phase)]

(* self.flow_accumulator.run_one_step(): the call begins *)
FlowAccumulate(dt, r) ==
    /\ model # NoModel
    /\ model.pc = "idle"
    /\ RLe(RAdd(model.model_time, dt), Float(MaxTime))
    /\ r \in RoutingResults(model.depression_finder)
    /\ at_node' = [at_node EXCEPT ![AREA] = r.drainage_area, ![SLOPE] = r.slope]
    /\ model' = [model EXCEPT !.pc = NextPhase(model.cls, "flow_accumulator"),
                              !.done = << "flow_accumulator" >>,
                              !.flood_status = r.flood_status]
    /\ call' = [op |-> "run_one_step", dt |-> dt]
    /\ err' = "none"
    /\ UNCHANGED <<status_at_node, bh, args, initial>>

_calc_effective_drainage_area ==
    [n \in Nodes |->
        IF n \in core_nodes
        THEN TimesExp(at_node[AREA][n],
                      RDiv(RMul(RNeg(model.sat_param), at_node[SLOPE][n]),
                           at_node[AREA][n]))
        ELSE at_node[EFF_AREA][n]]

CalcEffectiveDrainageArea ==
    /\ model # NoModel
    /\ model.pc = "effective_area"
    /\ at_node' = [at_node EXCEPT ![EFF_AREA] = _calc_effective_drainage_area]
    /\ model' = Advance("effective_area")
    /\ UNCHANGED <<status_at_node, bh, args, call, err, initial>>

(* Variant: no node is taken as flooded *)
flooded_nodes_Empty == {}

(* flooded: [] without a depression finder, else where flood_status == 3 *)
flooded_nodes ==
    IF model.depression_finder
    THEN {n \in Nodes : model.flood_status[n] = FLOODED}
    ELSE {}

(* BasicDdVs zeroes the effective area of the flooded nodes; BasicDdSt      *)
(* keeps the list for handle_water_erosion                                  *)
FindFlooded ==
    /\ model # NoModel
    /\ model.pc = "flooded"
    /\ at_node' =
          IF model.cls = BASIC_DDVS
          THEN [at_node EXCEPT ![EFF_AREA] =
                   [n \in Nodes |-> IF n \in flooded_nodes THEN Zero ELSE @[n]]]
          ELSE at_node
    /\ model' = [Advance("flooded") EXCEPT !.flooded = flooded_nodes]
    /\ UNCHANGED <<status_at_node, bh, args, call, err, initial>>

(* Variant: the threshold is not reset where it fell below threshold_value *)
update_threshold_field_NoFloor(threshold_value, thresh_change_per_depth, cum_ero) ==
    [n \in Nodes |-> RSub(threshold_value, RMul(thresh_change_per_depth, cum_ero[n]))]

(* the threshold array written by BasicDdSt.update_threshold_field and by   *)
(* the threshold block of BasicDdVs.run_one_step                            *)
update_threshold_field(threshold_value, thresh_change_per_depth, cum_ero) ==
    [n \in Nodes |->
        LET threshold == RSub(threshold_value,
                              RMul(thresh_change_per_depth, cum_ero[n]))
        IN  IF RLt(threshold, threshold_value) THEN threshold_value ELSE threshold]

UpdateThreshold ==
    /\ model # NoModel
    /\ model.pc = "threshold"
    /\ LET cum_ero == [n \in Nodes |-> RSub(z[n], at_node[INITIAL_TOPO][n])]
       IN  at_node' = [at_node EXCEPT
              ![CumEroField(model.cls)] = cum_ero,
              ![THRESHOLD] = update_threshold_field(model.threshold_value,
                                                    model.thresh_change_per_depth,
                                                    cum_ero)]
    /\ model' = Advance("threshold")
    /\ UNCHANGED <<status_at_node, bh, args, call, err, initial>>

(* if "PrecipChanger" in self.boundary_handler:                             *)
(*     self.eroder.K = self.K_sp * ...get_erodability_adjustment_factor()   *)
(* reading an attribute the object does not have raises AttributeError      *)
AdjustErodability ==
    /\ model # NoModel
    /\ model.pc = "precip_changer"
    /\ IF PRECIP_CHANGER \in model.boundary_handler
       THEN IF "K_sp" \in DOMAIN model
            THEN /\ model' = [Advance("precip_changer") EXCEPT
                                !.eroder_K = RMul(model.K_sp,
                                                  get_erodability_adjustment_factor)]
                 /\ UNCHANGED err
            ELSE /\ model' = [model EXCEPT !.pc = "idle"]
                 /\ err' = "AttributeError"
       ELSE /\ model' = Advance("precip_changer")
            /\ UNCHANGED err
    /\ UNCHANGED <<at_node, status_at_node, bh, args, call, initial>>

(* nodes the eroder can lower: core nodes with water on them *)
ErodedNodes ==
    IF model.cls = BASIC_DDVS
    THEN {n \in core_nodes : at_node[EFF_AREA][n] # Zero}
    ELSE core_nodes \ model.flooded

(* self.eroder.run_one_step(dt) *)
Erode(depth) ==
    /\ model # NoModel
    /\ model.pc = "eroder"
    /\ at_node' = [at_node EXCEPT ![TOPO] =
                      [n \in Nodes |-> IF n \in ErodedNodes
                                       THEN RSub(@[n], depth) ELSE @[n]]]
    /\ model' = Advance("eroder")
    /\ UNCHANGED <<status_at_node, bh, args, call, err, initial>>

(* self.diffuser.run_one_step(dt) *)
Diffuse(change) ==
    /\ model # NoModel
    /\ model.pc = "diffuser"
    /\ at_node' = [at_node EXCEPT ![TOPO] =
                      [n \in Nodes |-> IF n \in core_nodes
                                       THEN RAdd(@[n], change) ELSE @[n]]]
    /\ model' = Advance("diffuser")
    /\ UNCHANGED <<status_at_node, bh, args, call, err, initial>>

(* self.finalize__run_one_step(dt): updates all BoundaryHandlers by dt and  *)
(* increments model time by dt                                              *)
Finalize ==
    /\ model # NoModel
    /\ model.pc = "finalize"
    /\ IF bh.cls = SINGLE
       THEN /\ at_node' = ApplyChange(SingleTargetNodes,
                                      [n \in Nodes |-> SingleDelta(call.dt)])
            /\ bh' = [bh EXCEPT !.model_time = RAdd(bh.model_time, call.dt)]
       ELSE UNCHANGED <<at_node, bh>>
    /\ model' = [Advance("finalize") EXCEPT
                    !.model_time = RAdd(model.model_time, call.dt)]
    /\ UNCHANGED <<status_at_node, args, call, err, initial>>

InitModel ==
    /\ Init
    /\ ~HasBedrock
    /\ status_at_node =
           [n \in Nodes |-> IF n = 0 THEN FIXED_VALUE_BOUNDARY ELSE CORE_NODE]

NextModel ==
    \/ \E p \in DdVsParams, h \in HandlerSets, df \in BOOLEAN :
           BasicDdVs__init__(p, h, df)
    \/ \E p \in DdStParams, df \in BOOLEAN :
           \E r \in RoutingResults(df) : BasicDdSt__init__(p, r, df)
    \/ \E dt \in Dts, df \in BOOLEAN :
           \E r \in RoutingResults(df) : FlowAccumulate(dt, r)
    \/ CalcEffectiveDrainageArea
    \/ FindFlooded
    \/ UpdateThreshold
    \/ AdjustErodability
    \/ \E depth \in ErosionDepths : Erode(depth)
    \/ \E change \in DiffusionChanges : Diffuse(change)
    \/ Finalize

SpecModel == InitModel /\ [][NextModel]_vars


----------------------------------------------------------------------------
(* Vocabulary of the erosion-model properties *)

ModelConstructed == model # NoModel
ModelStepped == ModelConstructed /\ call.op = "run_one_step"
LastPhase == IF model.done = << >> THEN "none" ELSE model.done[Len(model.done)]
CumEro == at_node[CumEroField(model.cls)]

IsPrefix(a, b) == Len(a) <= Len(b) /\ \A i \in 1 .. Len(a) : a[i] = b[i]

NotPrecipCheck(phase) == phase # "precip_changer"

(* the component calls of the current (or last) run_one_step call *)
ComponentsRun == SelectSeq(model.done, NotPrecipCheck)

DocumentedOrder ==
    << "flow_accumulator", "effective_area", "flooded", "threshold",
       "eroder", "diffuser", "finalize" >>

(* C24: in BasicDdSt and BasicDdVs the threshold at every node is at least *)
(* threshold_value; for non-negative thresh_change_per_depth it is          *)
(* threshold_value - thresh_change_per_depth * c where the cumulative       *)
(* elevation change c is negative and threshold_value where c is not; and   *)
(* right after an update c is elevation minus initial elevation.            *)
C24_ThresholdFloor ==
    ModelConstructed =>
        \A n \in Nodes :
            LET c == CumEro[n]
                threshold == at_node[THRESHOLD][n]
            IN  /\ RLe(model.threshold_value, threshold)
                /\ RLe(Float(0), model.thresh_change_per_depth)
                      => /\ RLt(c, Float(0))
                              => threshold =
                                   RSub(model.threshold_value,
                                        RMul(model.thresh_change_per_depth, c))
                         /\ RLe(Float(0), c) => threshold = model.threshold_value
                /\ LastPhase = "threshold"
                      => c = RSub(z[n], at_node[INITIAL_TOPO][n])

(* right after an update: one node has been lowered and its threshold       *)
(* raised, another has grown and its threshold is threshold_value           *)
C24_Witness ==
    /\ ModelConstructed
    /\ LastPhase = "threshold"
    /\ RLt(Float(0), model.thresh_change_per_depth)
    /\ \E n \in Nodes :
           /\ RLt(CumEro[n], Float(0))
           /\ RLt(model.threshold_value, at_node[THRESHOLD][n])
    /\ \E n \in Nodes :
           /\ RLt(Float(0), CumEro[n])
           /\ at_node[THRESHOLD][n] = model.threshold_value

(* C25 as stated: every BasicDdVs.run_one_step call makes its component   *)
(* calls in the documented order (flow routing, effective area, flooded     *)
(* nodes, threshold, erosion, diffusion, finalize), all of them by the time *)
(* the call ends; the boundary handler acts in finalize only, so while a    *)
(* call is under way the outlet is where the handler left it at the         *)
(* model's time.                                                            *)
C25_DocumentedOrder ==
    model.cls = BASIC_DDVS =>
        /\ IsPrefix(ComponentsRun, DocumentedOrder)
        /\ (ModelStepped /\ model.pc = "idle")
               => ComponentsRun = DocumentedOrder
        /\ bh.cls = SINGLE
               => /\ bh.model_time = model.model_time
                  /\ z[bh.outlet_node] =
                         RAdd(initial[TOPO][bh.outlet_node],
                              RMul(bh.lowering_rate, model.model_time))

(* C26: when the eroder of a BasicDdVs model is about to run, every node   *)
(* the depression finder flags as flooded has effective drainage area 0;    *)
(* without a depression finder every core node keeps the effective area     *)
(* computed from its drainage area and slope.                               *)
C26_FloodedAreaZero ==
    (model.cls = BASIC_DDVS /\ model.pc = "eroder") =>
        IF model.depression_finder
        THEN \A n \in Nodes :
                 model.flood_status[n] = FLOODED => at_node[EFF_AREA][n] = Zero
        ELSE \A n \in core_nodes :
                 /\ at_node[EFF_AREA][n] = _calc_effective_drainage_area[n]
                 /\ at_node[EFF_AREA][n] # Zero

C26_Witness ==
    /\ model.cls = BASIC_DDVS
    /\ model.pc = "eroder"
    /\ model.depression_finder
    /\ \E n \in core_nodes :
           model.flood_status[n] = FLOODED /\ at_node[EFF_AREA][n] = Zero
    /\ \E n \in core_nodes :
           model.flood_status[n] # FLOODED /\ at_node[EFF_AREA][n] # Zero

(* C27 as stated: with a PrecipChanger among the boundary handlers of a    *)
(* BasicDdVs model, run_one_step raises nothing and from the erosion on the *)
(* eroder's K is the model's K times the handler's adjustment factor.       *)
C27_PrecipChangerSetsErodability ==
    ( /\ model.cls = BASIC_DDVS
      /\ PRECIP_CHANGER \in model.boundary_handler
      /\ ModelStepped )
    => /\ err = "none"
       /\ model.pc \in {"eroder", "diffuser", "finalize", "idle"}
              => model.eroder_K = RMul(model.K, get_erodability_adjustment_factor)

====
